---- MODULE Spec2Model ----
(***************************************************************************)
(* Pointer-Generator Network of summarus (src/summarus/pgn.py).            *)
(*                                                                         *)
(* Tensors are modelled as sequences (rows) of integers, a batch as a      *)
(* sequence of rows.  Probabilities are exact rationals: a distribution is *)
(* a vector of integer weights over a stated total.                        *)
(***************************************************************************)
EXTENDS Integers, Sequences, FiniteSets, TLC

(***************************************************************************)
(* Vocabulary of the target namespace (pgn.py:37-42).  Index 0 is the      *)
(* padding index (ignored by the loss, pgn.py:304), 4 and 5 are ordinary   *)
(* words ("the", "ran").                                                   *)
(***************************************************************************)
PadIndex == 0
UnkIndex == 1
StartIndex == 2
EndIndex == 3
TargetVocabSize == 6

\* Bounds of the enumerated inputs.
SrcLen == 2
TgtLen == 2
MaxId == 2
MaxSteps == 2

VARIABLES
    pc,          \* position of the computation
    batch,       \* the input tensors, as the callee leaves them
    orig,        \* the input tensors as they were handed in
    prep,        \* result of _prepare
    prep2,       \* result of a second _prepare on the same batch
    final_dist,  \* result of the last _get_final_dist
    cfg,         \* constructor arguments and the training flag
    state,       \* the decoder state dictionary
    loop,        \* locals of _forward_loop
    beam,        \* progress of the beam search
    output_dict, \* the dictionary forward returns
    calls        \* the calls forward has made so far, in order

vars == <<pc, batch, orig, prep, prep2, final_dist, cfg, state, loop, beam,
          output_dict, calls>>

(***************************************************************************)
(* Generic helpers on sequences.                                           *)
(***************************************************************************)
Range(s) == {s[p] : p \in DOMAIN s}

MaxOf(S) == CHOOSE m \in S : \A x \in S : x <= m

MinOf(S) == CHOOSE m \in S : \A x \in S : m <= x

RECURSIVE SumSeq(_)
SumSeq(s) == IF s = <<>> THEN 0 ELSE Head(s) + SumSeq(Tail(s))

\* torch.unique(..., sorted=True)[0]: the distinct values in ascending order.
RECURSIVE SortedUnique(_)
SortedUnique(S) ==
    IF S = {} THEN <<>>
    ELSE LET m == MinOf(S) IN <<m>> \o SortedUnique(S \ {m})

\* torch.unique(..., return_inverse=True, sorted=True)[1]: for every position
\* the 0-based index of its value in the sorted distinct values.
UniqueInverse(s) ==
    LET u == SortedUnique(Range(s))
    IN [p \in DOMAIN s |-> (CHOOSE k \in DOMAIN u : u[k] = s[p]) - 1]

(***************************************************************************)
(* _prepare (pgn.py:100-138).                                              *)
(***************************************************************************)
\* pgn.py:108-112: source and target concatenated along the sequence axis.
CatTokens(row, has_targets) ==
    IF has_targets THEN row.source_to_target \o row.target_tokens
    ELSE row.source_to_target

CatTokenIds(row, has_targets) ==
    IF has_targets THEN row.source_token_ids \o row.target_token_ids
    ELSE row.source_token_ids

\* pgn.py:114
IsUnk(tok) == IF tok = UnkIndex THEN 1 ELSE 0

\* pgn.py:115
UnkOnly(row, has_targets) ==
    LET tokens == CatTokens(row, has_targets)
        token_ids == CatTokenIds(row, has_targets)
    IN [p \in DOMAIN tokens |-> token_ids[p] * IsUnk(tokens[p])]

\* pgn.py:117-120
UnkTokenNums(row, has_targets) == UniqueInverse(UnkOnly(row, has_targets))

RewriteTokenOffByOne(tok, num) ==
    tok - tok * IsUnk(tok) + TargetVocabSize * IsUnk(tok) + num

\* pgn.py:122, one entry
RewriteToken(tok, num) ==
    tok - tok * IsUnk(tok) + (TargetVocabSize - 1) * IsUnk(tok) + num

RewriteRowByPosition(row, has_targets) ==
    LET tokens == CatTokens(row, has_targets)
    IN [p \in DOMAIN tokens |->
            RewriteToken(tokens[p], IF tokens[p] = UnkIndex THEN p - 1 ELSE 0)]

\* pgn.py:122, one row
RewriteRow(row, has_targets) ==
    LET tokens == CatTokens(row, has_targets)
        nums == UnkTokenNums(row, has_targets)
    IN [p \in DOMAIN tokens |-> RewriteToken(tokens[p], nums[p])]

CollapseRowNever(tokens, source_max_length) == tokens

\* pgn.py:128-132: target positions above the source maximum fall back to
\* the unknown-token id.
CollapseRow(tokens, source_max_length) ==
    LET max_source == MaxOf({tokens[p] : p \in 1..source_max_length})
        max_source_num == IF TargetVocabSize - 1 >= max_source
                          THEN TargetVocabSize - 1 ELSE max_source
        mask == [p \in DOMAIN tokens |->
                    IF tokens[p] > max_source_num THEN 1 ELSE 0]
    IN [p \in DOMAIN tokens |->
            (tokens[p] - tokens[p] * mask[p]) + UnkIndex * mask[p]]

\* pgn.py:105-106
SourceMaxLength(b) == Len(b.rows[1].source_to_target)

\* pgn.py:122-134, one row: the rewritten concatenation
PreparedRow(b, i) ==
    LET tokens == RewriteRow(b.rows[i], b.has_targets)
    IN IF b.has_targets THEN CollapseRow(tokens, SourceMaxLength(b))
       ELSE tokens

SourceUnkCountOfFirstRow(b) ==
    MaxOf({UnkTokenNums(b.rows[1], b.has_targets)[p] :
              p \in 1..SourceMaxLength(b)})

\* pgn.py:136
SourceUnkCount(b) ==
    MaxOf({UnkTokenNums(b.rows[i], b.has_targets)[p] :
              i \in DOMAIN b.rows, p \in 1..SourceMaxLength(b)})

\* pgn.py:100-138: (extra_zeros, modified_source_tokens, modified_target_tokens)
PrepareResult(b) ==
    LET S == SourceMaxLength(b)
    IN [extra_zeros |-> [i \in DOMAIN b.rows |->
                            [j \in 1..SourceUnkCount(b) |-> 0]],
        source |-> [i \in DOMAIN b.rows |-> SubSeq(PreparedRow(b, i), 1, S)],
        target |-> IF b.has_targets
                   THEN [i \in DOMAIN b.rows |->
                            SubSeq(PreparedRow(b, i), S + 1,
                                   Len(PreparedRow(b, i)))]
                   ELSE <<>>]

InputsAfterPrepareInPlace(b) ==
    [b EXCEPT !.rows = [i \in DOMAIN b.rows |->
        [b.rows[i] EXCEPT !.source_to_target =
            SubSeq(PreparedRow(b, i), 1, SourceMaxLength(b))]]]

\* The input tensors after _prepare: pgn.py:111-112 (torch.cat) and
\* pgn.py:122 build new tensors, and the in-place write of pgn.py:132 goes
\* to the tensor built at pgn.py:122, so the arguments keep their values.
InputsAfterPrepare(b) == b

(***************************************************************************)
(* _get_final_dist (pgn.py:210-233).  The learned layers are not computed: *)
(* what reaches the mixer is a softmax output (vocab_dist), a sigmoid      *)
(* output (p_gen) and the attention distribution, each an exact rational.  *)
(* A distribution is [w |-> integer weights, total |-> their unit]: entry  *)
(* j has probability w[j] / total.                                         *)
(***************************************************************************)
\* pgn.py:227-228: the generation distribution padded with the extra slots
CatExtraZeros(vocab_w, extra_zeros_row) ==
    IF Len(extra_zeros_row) # 0 THEN vocab_w \o extra_zeros_row ELSE vocab_w

\* pgn.py:229: scatter_add(1, tokens, attn_dist), one row
ScatterAdd(base, tokens, add) ==
    [j \in DOMAIN base |->
        base[j] + SumSeq([p \in DOMAIN tokens |->
                            IF tokens[p] = j - 1 THEN add[p] ELSE 0])]

ScatterInRange(base, tokens) ==
    \A p \in DOMAIN tokens : tokens[p] >= 0 /\ tokens[p] < Len(base)

NormalizationFactorBeforeScatter(mixed, vocab_scaled) == SumSeq(vocab_scaled)

\* pgn.py:230
NormalizationFactor(mixed, vocab_scaled) == SumSeq(mixed)

\* pgn.py:219-233, one row.  Weights are brought to the common unit
\* vocab_dist.total * attn_dist.total * p_gen.den before they are added.
GetFinalDistRow(tokens, extra_zeros_row, attn_dist, vocab_dist, p_gen) ==
    LET vocab_scaled == [j \in DOMAIN vocab_dist.w |->
                            vocab_dist.w[j] * p_gen.num * attn_dist.total]
        attn_scaled == [p \in DOMAIN attn_dist.w |->
                            attn_dist.w[p] * (p_gen.den - p_gen.num)
                                * vocab_dist.total]
        padded == CatExtraZeros(vocab_scaled, extra_zeros_row)
    IN IF ~ScatterInRange(padded, tokens)
       THEN [error |-> "index out of range"]
       ELSE LET mixed == ScatterAdd(padded, tokens, attn_scaled)
            IN [w |-> mixed,
                total |-> NormalizationFactor(mixed, vocab_scaled)]

\* pgn.py:210-233, the batch
GetFinalDist(tokens, extra_zeros, attn_scores, vocab_dists, p_gens) ==
    [i \in DOMAIN tokens |->
        GetFinalDistRow(tokens[i], extra_zeros[i], attn_scores[i],
                        vocab_dists[i], p_gens[i])]

(***************************************************************************)
(* What the learned layers can hand to the mixer.                          *)
(***************************************************************************)
\* util.get_text_field_mask (pgn.py:144): padding positions are masked.
SourceMask(source_row) ==
    [p \in DOMAIN source_row |-> IF source_row[p] # PadIndex THEN 1 ELSE 0]

AttnKinds == {"peak", "flat"}

\* The attention module (pgn.py:187, 190): a distribution over the source
\* positions with no mass on masked positions, either all on one position
\* or spread evenly.
AttnDist(mask, kind, focus) ==
    LET open == {p \in DOMAIN mask : mask[p] = 1}
        f == IF focus \in open THEN focus ELSE MinOf(open)
    IN [w |-> [p \in DOMAIN mask |->
                  IF kind = "peak"
                  THEN (IF p = f THEN Cardinality(open) ELSE 0)
                  ELSE mask[p]],
        total |-> Cardinality(open)]

\* F.softmax of the output projections (pgn.py:223): every entry positive,
\* two thirds of the mass on one index or all indices alike.
VocabPeaks == {PadIndex, EndIndex, TargetVocabSize - 1}

VocabDist(peak) ==
    [w |-> [j \in 1..TargetVocabSize |->
                IF j - 1 = peak /\ peak # PadIndex
                THEN 2 * TargetVocabSize - 1 ELSE 1],
     total |-> IF peak # PadIndex THEN 3 * TargetVocabSize - 2
               ELSE TargetVocabSize]

\* torch.sigmoid (pgn.py:221): 0 and 1 are the values a saturated float
\* sigmoid returns.
PGenVals == {[num |-> 0, den |-> 1], [num |-> 1, den |-> 2],
             [num |-> 1, den |-> 1]}

\* An even spread has no focus; it is written with focus 1.
NetResponses(source_max_length) ==
    {r \in [kind : AttnKinds, focus : 1..source_max_length,
            peak : VocabPeaks, p_gen : PGenVals] :
        r.kind = "flat" => r.focus = 1}

\* The responses of the learned layers that the forward pass is run with:
\* generate the end symbol, generate a word, copy the first source position,
\* copy the second one, or mix generation and attention evenly.
FwdResponses ==
    {[kind |-> "flat", focus |-> 1, peak |-> EndIndex,
      p_gen |-> [num |-> 1, den |-> 1]],
     [kind |-> "flat", focus |-> 1, peak |-> TargetVocabSize - 1,
      p_gen |-> [num |-> 1, den |-> 1]],
     [kind |-> "peak", focus |-> 1, peak |-> PadIndex,
      p_gen |-> [num |-> 0, den |-> 1]],
     [kind |-> "peak", focus |-> 2, peak |-> PadIndex,
      p_gen |-> [num |-> 0, den |-> 1]],
     [kind |-> "flat", focus |-> 1, peak |-> PadIndex,
      p_gen |-> [num |-> 1, den |-> 2]]}

(***************************************************************************)
(* The decoder state is a dictionary (a function from keys to tensors);    *)
(* a tensor is a sequence with one entry per row of the batch.  Values of  *)
(* learned layers are kept as terms naming the layer and what it read.     *)
(***************************************************************************)
Put(d, k, v) == (k :> v) @@ d

\* The ids the encoder reads: the source field is indexed in the namespace
\* "tokens", which is also the default target namespace (pgn.py:28, 39-42).
SourceTokens(row) == row.source_to_target

\* _encode (pgn.py:140-151)
Encode(b) ==
    Put(Put(<< >>, "source_mask",
            [i \in DOMAIN b.rows |-> SourceMask(SourceTokens(b.rows[i]))]),
        "encoder_outputs",
        [i \in DOMAIN b.rows |-> [layer |-> "encoder",
                                  read |-> <<SourceTokens(b.rows[i])>>]])

StateWithUnpreparedTokens(st, p, b) ==
    Put(Put(st, "tokens",
            [i \in DOMAIN b.rows |-> b.rows[i].source_to_target]),
        "extra_zeros", p.extra_zeros)

\* pgn.py:82-83
StateAfterPrepare(st, p, b) ==
    Put(Put(st, "tokens", p.source), "extra_zeros", p.extra_zeros)

LoopOutputWithoutLoss(predictions, loss, has_targets) ==
    Put(<< >>, "predictions", predictions)

\* pgn.py:281-296
LoopOutput(predictions, loss, has_targets) ==
    IF has_targets
    THEN Put(Put(<< >>, "predictions", predictions), "loss", loss)
    ELSE Put(<< >>, "predictions", predictions)

InitDecoderStateOnce(st, use_coverage) ==
    LET n == DOMAIN st["source_mask"]
        hidden == [i \in n |-> [layer |-> "final_encoder_state",
                                read |-> <<st["encoder_outputs"][i],
                                           st["source_mask"][i]>>]]
        context == [i \in n |-> [layer |-> "zeros", read |-> << >>]]
        st2 == Put(Put(st, "decoder_hidden", hidden), "decoder_context", context)
    IN IF "decoder_hidden" \in DOMAIN st THEN st
       ELSE IF use_coverage
       THEN Put(st2, "coverage",
                [i \in n |-> [p \in DOMAIN st["source_mask"][i] |-> 0]])
       ELSE st2

\* _init_decoder_state (pgn.py:153-168)
InitDecoderState(st, use_coverage) ==
    LET n == DOMAIN st["source_mask"]
        hidden == [i \in n |-> [layer |-> "final_encoder_state",
                                read |-> <<st["encoder_outputs"][i],
                                           st["source_mask"][i]>>]]
        context == [i \in n |-> [layer |-> "zeros", read |-> << >>]]
        st2 == Put(Put(st, "decoder_hidden", hidden), "decoder_context", context)
    IN IF use_coverage
       THEN Put(st2, "coverage",
                [i \in n |-> [p \in DOMAIN st["source_mask"][i] |-> 0]])
       ELSE st2

\* pgn.py:182-183
FixPrediction(x) ==
    LET is_unk == IF x >= TargetVocabSize THEN 1 ELSE 0
    IN x - x * is_unk + UnkIndex * is_unk

AttnScoresStoredWithCoverage(attn, coverage_before, use_coverage) ==
    IF use_coverage
    THEN [attn EXCEPT !.w = [p \in DOMAIN attn.w |-> attn.w[p] + coverage_before[p]]]
    ELSE attn

\* pgn.py:205: what _prepare_output_projections stores as attn_scores
AttnScoresStored(attn, coverage_before, use_coverage) == attn

\* _prepare_output_projections (pgn.py:170-208) under the response r of the
\* learned layers: the new state, and the output projections as the term
\* whose softmax is VocabDist(r.peak).
PrepareOutputProjections(last_predictions, st, use_coverage, r) ==
    LET n == DOMAIN last_predictions
        embedded_input == [i \in n |->
            [layer |-> "target_embedder",
             read |-> <<FixPrediction(last_predictions[i])>>]]
        attn == [i \in n |-> AttnDist(st["source_mask"][i], r.kind, r.focus)]
        attn_scores == [i \in n |->
            AttnScoresStored(attn[i],
                             IF use_coverage THEN st["coverage"][i] ELSE << >>,
                             use_coverage)]
        attn_context == [i \in n |->
            [layer |-> "weighted_sum",
             read |-> <<st["encoder_outputs"][i], attn_scores[i]>>]]
        decoder_input == [i \in n |->
            [layer |-> "cat", read |-> <<attn_context[i], embedded_input[i]>>]]
        hidden == [i \in n |->
            [layer |-> "decoder_cell_h",
             read |-> <<decoder_input[i], st["decoder_hidden"][i],
                        st["decoder_context"][i]>>]]
        context == [i \in n |->
            [layer |-> "decoder_cell_c",
             read |-> <<decoder_input[i], st["decoder_hidden"][i],
                        st["decoder_context"][i]>>]]
        st2 == IF use_coverage
               THEN Put(st, "coverage",
                        [i \in n |-> [p \in DOMAIN attn_scores[i].w |->
                            st["coverage"][i][p] + attn_scores[i].w[p]]])
               ELSE st
    IN [output_projections |->
            [i \in n |-> [layer |-> "output_projection", peak |-> r.peak,
                          read |-> <<hidden[i]>>]],
        state |->
            Put(Put(Put(Put(Put(st2, "decoder_input", decoder_input),
                            "decoder_hidden", hidden),
                        "decoder_context", context),
                    "attn_scores", attn_scores),
                "attn_context", attn_context)]

\* _get_final_dist on a state (pgn.py:210-233): F.softmax of the output
\* projections and torch.sigmoid of the p_gen layer are what r says.
FinalDistOf(st, output_projections, r) ==
    GetFinalDist(st["tokens"], st["extra_zeros"], st["attn_scores"],
                 [i \in DOMAIN output_projections |->
                     VocabDist(output_projections[i].peak)],
                 [i \in DOMAIN output_projections |-> r.p_gen])

IsError(fd) == \E i \in DOMAIN fd : "error" \in DOMAIN fd[i]

\* torch.max(final_dist, 1)[1] (pgn.py:274): the first index of a maximum
ArgMax(w) ==
    MinOf({j \in DOMAIN w : \A k \in DOMAIN w : w[k] <= w[j]}) - 1

\* pgn.py:242-247
NumDecodingSteps(b, max_decoding_steps) ==
    IF b.has_targets THEN Len(b.rows[1].target_tokens) - 1
    ELSE max_decoding_steps

\* pgn.py:256-261
InputChoices(b, c, timestep, last_predictions) ==
    IF c.training /\ 0 < c.scheduled_sampling_ratio THEN last_predictions
    ELSE IF ~b.has_targets THEN last_predictions
    ELSE [i \in DOMAIN b.rows |-> b.rows[i].target_tokens[timestep + 1]]

\* pgn.py:270-272, one step: the sum over source positions of
\* min(attention, coverage before the step), in the attention's unit
StepCoverageLoss(attn_scores, coverage) ==
    [i \in DOMAIN attn_scores |->
        SumSeq([p \in DOMAIN attn_scores[i].w |->
            IF attn_scores[i].w[p] <= coverage[i][p]
            THEN attn_scores[i].w[p] ELSE coverage[i][p]])]

\* _get_loss (pgn.py:298-305): the probabilities whose logarithms the loss
\* averages, one per target position after the first that is not padding.
GetLoss(step_proba, targets) ==
    LET n == DOMAIN targets
        cells == {<<i, t>> \in n \X (1..Len(step_proba)) :
                    targets[i][t + 1] # PadIndex}
    IN IF \E c \in cells :
             targets[c[1]][c[2] + 1] >= Len(step_proba[c[2]][c[1]].w)
       THEN [error |-> "target out of bounds"]
       ELSE [likelihoods |->
                [c \in cells |->
                    [num |-> step_proba[c[2]][c[1]].w[targets[c[1]][c[2] + 1] + 1],
                     den |-> step_proba[c[2]][c[1]].total]]]

\* pgn.py:291-293: the coverage term, per row the accumulated step losses
\* over (attention unit * number of steps); the loss adds the mean of the
\* rows times coverage_loss_weight.
CoverageTerm(coverage_loss, st, num_decoding_steps) ==
    [i \in DOMAIN coverage_loss |->
        [num |-> coverage_loss[i],
         den |-> st["attn_scores"][i].total * num_decoding_steps]]

\* pgn.py:242-254: the loop's variables before its first iteration
LoopStart(b, c) ==
    [timestep |-> 0,
     num_decoding_steps |-> NumDecodingSteps(b, c.max_decoding_steps),
     last_predictions |-> [i \in DOMAIN b.rows |-> StartIndex],
     step_proba |-> << >>,
     step_predictions |-> << >>,
     coverage_loss |-> [i \in DOMAIN b.rows |-> 0]]

\* pgn.py:267-276: the loop's variables after an iteration that took the
\* state from st_before to st_after and mixed the final distribution fd
LoopAfterStep(l, fd, st_before, st_after, use_coverage) ==
    [l EXCEPT
        !.timestep = @ + 1,
        !.step_proba = Append(@, fd),
        !.coverage_loss =
            IF use_coverage
            THEN [i \in DOMAIN @ |-> @[i] +
                    StepCoverageLoss(st_after["attn_scores"],
                                     st_before["coverage"])[i]]
            ELSE @,
        !.last_predictions = [i \in DOMAIN fd |-> ArgMax(fd[i].w)],
        !.step_predictions = Append(@, [i \in DOMAIN fd |-> ArgMax(fd[i].w)])]

\* pgn.py:279: torch.cat(step_predictions, 1)
LoopPredictions(l) ==
    [i \in DOMAIN l.last_predictions |->
        [t \in 1..Len(l.step_predictions) |-> l.step_predictions[t][i]]]

\* pgn.py:290-293: the loss as its primary part and, with coverage, the
\* term that coverage_loss_weight scales and the sum adds
LoopLoss(l, st, use_coverage) ==
    IF use_coverage
    THEN [nll |-> GetLoss(l.step_proba, st["target_tokens"]),
          coverage |-> CoverageTerm(l.coverage_loss, st, l.num_decoding_steps)]
    ELSE [nll |-> GetLoss(l.step_proba, st["target_tokens"])]

(***************************************************************************)
(* decode (pgn.py:331-363).  A token is [kind |-> "vocab", n |-> index]    *)
(* for the vocabulary's token at an index and [kind |-> "oov", n |-> id]   *)
(* for the literal out-of-vocabulary word that the identity id names.      *)
(***************************************************************************)
\* vocab.get_token_from_index (pgn.py:356)
VocabToken(x) == [kind |-> "vocab", n |-> x]

\* metadata["source_tokens"]: the literal source tokens of a row
LiteralWord(tok, id) ==
    IF tok = UnkIndex THEN [kind |-> "oov", n |-> id] ELSE VocabToken(tok)

Metadata(b) ==
    [i \in DOMAIN b.rows |->
        [source_tokens |->
            [p \in DOMAIN b.rows[i].source_to_target |->
                LiteralWord(b.rows[i].source_to_target[p],
                            b.rows[i].source_token_ids[p])]]]

TopHypothesisLast(indices, is_beam) ==
    IF is_beam THEN indices[Len(indices)] ELSE indices

\* pgn.py:339-341
TopHypothesis(indices, is_beam) ==
    IF is_beam THEN indices[1] ELSE indices

CutAfterEnd(indices) ==
    IF EndIndex \in Range(indices)
    THEN SubSeq(indices, 1,
                MinOf({k \in DOMAIN indices : indices[k] = EndIndex}))
    ELSE indices

\* pgn.py:343-344
CutAtEnd(indices) ==
    IF EndIndex \in Range(indices)
    THEN SubSeq(indices, 1,
                MinOf({k \in DOMAIN indices : indices[k] = EndIndex}) - 1)
    ELSE indices

\* pgn.py:347-352: the distinct literal tokens at the unknown positions of
\* the source, in order of first occurrence
RECURSIVE UnkTokens(_, _, _)
UnkTokens(source_to_target, source_tokens, upto) ==
    IF upto = 0 THEN << >>
    ELSE LET before == UnkTokens(source_to_target, source_tokens, upto - 1)
         IN IF source_to_target[upto] = UnkIndex
               /\ source_tokens[upto] \notin Range(before)
            THEN Append(before, source_tokens[upto])
            ELSE before

\* pgn.py:336-361, one row
DecodeRow(indices, is_beam, metadata, source_to_target) ==
    LET kept == CutAtEnd(TopHypothesis(indices, is_beam))
        unk_tokens == UnkTokens(source_to_target, metadata.source_tokens,
                                Len(source_to_target))
    IN IF \E k \in DOMAIN kept :
             kept[k] >= TargetVocabSize
             /\ kept[k] - TargetVocabSize >= Len(unk_tokens)
       THEN [error |-> "list index out of range"]
       ELSE [tokens |->
                [k \in DOMAIN kept |->
                    IF kept[k] < TargetVocabSize THEN VocabToken(kept[k])
                    ELSE unk_tokens[kept[k] - TargetVocabSize + 1]]]

\* pgn.py:331-363: the rows of predicted_tokens
DecodeRows(od) ==
    [i \in DOMAIN od["predictions"] |->
        DecodeRow(od["predictions"][i], od["is_beam"], od["metadata"][i],
                  od["source_to_target"][i])]

(***************************************************************************)
(* Inputs.  A position is an in-vocabulary word or an out-of-vocabulary    *)
(* word with an identity id; the identity id of an in-vocabulary word is   *)
(* multiplied away at pgn.py:115.                                          *)
(***************************************************************************)
PosVals ==
    {[tok |-> TargetVocabSize - 1, id |-> 0]}
    \cup {[tok |-> UnkIndex, id |-> i] : i \in 0..MaxId}

MkRow(src, tgt) ==
    [source_to_target |-> [p \in DOMAIN src |-> src[p].tok],
     source_token_ids |-> [p \in DOMAIN src |-> src[p].id],
     target_tokens    |-> [p \in DOMAIN tgt |-> tgt[p].tok],
     target_token_ids |-> [p \in DOMAIN tgt |-> tgt[p].id]]

EnumRows(has_targets) ==
    {MkRow(src, tgt) :
        src \in [1..SrcLen -> PosVals],
        tgt \in IF has_targets THEN [1..TgtLen -> PosVals] ELSE {<<>>}}

\* A second row of the batch whose source holds only distinct
\* out-of-vocabulary words (identity ids 1, 2, ...).
WideRow(has_targets) ==
    MkRow([p \in 1..SrcLen |-> [tok |-> UnkIndex, id |-> p]],
          IF has_targets
          THEN [p \in 1..TgtLen |-> [tok |-> TargetVocabSize - 1, id |-> 0]]
          ELSE <<>>)

\* spec.md section 8: source = [the, zorblax, ran], target = [zorblax, ran,
\* fast]; identity ids number the words in order of first occurrence.
ScenarioBatch ==
    [rows |-> <<[source_to_target |-> <<4, UnkIndex, 5>>,
                 source_token_ids |-> <<0, 1, 2>>,
                 target_tokens    |-> <<UnkIndex, 5, UnkIndex>>,
                 target_token_ids |-> <<1, 2, 3>>]>>,
     has_targets |-> TRUE]

\* The batches of one row, and of that row followed by WideRow.
BatchesOf(has_targets) ==
    {[rows |-> <<r>>, has_targets |-> has_targets] :
        r \in EnumRows(has_targets)}
    \cup {[rows |-> <<r, WideRow(has_targets)>>, has_targets |-> has_targets] :
            r \in EnumRows(has_targets)}

Batches == BatchesOf(TRUE) \cup BatchesOf(FALSE) \cup {ScenarioBatch}

NoResult == [none |-> TRUE]

\* Batches of the forward pass.  Targets start with the start symbol and end
\* with the end symbol; FwdWords is the scenario's source with the target
\* [start, zorblax, end]; FwdPair holds a row of two out-of-vocabulary words
\* and a shorter, padded row.
FwdWords ==
    [rows |-> <<[source_to_target |-> <<4, UnkIndex, 5>>,
                 source_token_ids |-> <<0, 1, 2>>,
                 target_tokens    |-> <<StartIndex, UnkIndex, EndIndex>>,
                 target_token_ids |-> <<3, 1, 4>>]>>,
     has_targets |-> TRUE]

FwdPair ==
    [rows |-> <<[source_to_target |-> <<UnkIndex, UnkIndex>>,
                 source_token_ids |-> <<1, 2>>,
                 target_tokens    |-> <<StartIndex, UnkIndex, EndIndex>>,
                 target_token_ids |-> <<3, 2, 4>>],
                [source_to_target |-> <<5, PadIndex>>,
                 source_token_ids |-> <<0, 0>>,
                 target_tokens    |-> <<StartIndex, EndIndex, PadIndex>>,
                 target_token_ids |-> <<1, 2, 0>>]>>,
     has_targets |-> TRUE]

\* forward called with target_tokens = None (pgn.py:74-75)
WithoutTargets(b) ==
    [rows |-> [i \in DOMAIN b.rows |->
                [b.rows[i] EXCEPT !.target_tokens = << >>,
                                  !.target_token_ids = << >>]],
     has_targets |-> FALSE]

FwdBatches ==
    {FwdWords, FwdPair, WithoutTargets(FwdWords), WithoutTargets(FwdPair)}

\* Constructor arguments (pgn.py:26-33) and Model.training.
Configs ==
    [training : BOOLEAN, use_coverage : BOOLEAN,
     scheduled_sampling_ratio : {0, 1}, max_decoding_steps : 1..MaxSteps]

NoConfig == [none |-> TRUE]

(***************************************************************************)
(* The Extended-Vocabulary Builder as a function of the batch: the batch   *)
(* is drawn, _prepare runs, and runs once more on what it left behind.     *)
(***************************************************************************)
InitPrepare ==
    /\ batch \in Batches
    /\ orig = batch
    /\ pc = "start"
    /\ prep = NoResult
    /\ prep2 = NoResult
    /\ final_dist = NoResult
    /\ cfg = NoConfig
    /\ state = << >>
    /\ loop = NoResult
    /\ beam = NoResult
    /\ output_dict = NoResult
    /\ calls = << >>

forward_vars == <<cfg, state, loop, beam, output_dict, calls>>

Prepare ==
    /\ pc = "start"
    /\ prep' = PrepareResult(batch)
    /\ batch' = InputsAfterPrepare(batch)
    /\ pc' = "prepared"
    /\ UNCHANGED <<orig, prep2, final_dist, forward_vars>>

PrepareAgain ==
    /\ pc = "prepared"
    /\ prep2' = PrepareResult(batch)
    /\ batch' = InputsAfterPrepare(batch)
    /\ pc' = "prepared_twice"
    /\ UNCHANGED <<orig, prep, final_dist, forward_vars>>

\* _get_final_dist on the rewritten source; every row gets the same
\* response of the learned layers.
Mix ==
    /\ pc = "prepared"
    /\ \E r \in NetResponses(SourceMaxLength(batch)) :
          final_dist' =
            GetFinalDist(prep.source, prep.extra_zeros,
                [i \in DOMAIN prep.source |->
                    AttnDist(SourceMask(SourceTokens(batch.rows[i])),
                             r.kind, r.focus)],
                [i \in DOMAIN prep.source |-> VocabDist(r.peak)],
                [i \in DOMAIN prep.source |-> r.p_gen])
    /\ pc' = "mixed"
    /\ UNCHANGED <<batch, orig, prep, prep2, forward_vars>>

NextPrepare == Prepare \/ PrepareAgain \/ Mix

SpecPrepare == InitPrepare /\ [][NextPrepare]_vars

(***************************************************************************)
(* forward (pgn.py:70-98), one action per stretch of it between two calls  *)
(* of the decoder step.                                                    *)
(***************************************************************************)
Init ==
    /\ batch \in FwdBatches
    /\ orig = batch
    /\ cfg \in Configs
    /\ pc = "start"
    /\ prep = NoResult
    /\ prep2 = NoResult
    /\ final_dist = NoResult
    /\ state = << >>
    /\ loop = NoResult
    /\ beam = NoResult
    /\ output_dict = NoResult
    /\ calls = << >>

\* pgn.py:77
EncodeCall ==
    /\ pc = "start"
    /\ state' = Encode(batch)
    /\ calls' = Append(calls, "_encode")
    /\ pc' = "encoded"
    /\ UNCHANGED <<batch, orig, prep, prep2, final_dist, cfg, loop, beam,
                   output_dict>>

\* pgn.py:78-85
PrepareCall ==
    /\ pc = "encoded"
    /\ prep' = PrepareResult(batch)
    /\ batch' = InputsAfterPrepare(batch)
    /\ state' = StateAfterPrepare(state, PrepareResult(batch), batch)
    /\ output_dict' = << >>
    /\ calls' = Append(calls, "_prepare")
    /\ pc' = "prepared"
    /\ UNCHANGED <<orig, prep2, final_dist, cfg, loop, beam>>

\* pgn.py:86-88 and 235-254: the branch with targets, up to the loop
StartLoop ==
    /\ pc = "prepared"
    /\ batch.has_targets
    /\ state' = InitDecoderState(Put(state, "target_tokens", prep.target),
                                 cfg.use_coverage)
    /\ loop' = LoopStart(batch, cfg)
    /\ calls' = Append(calls, "_init_decoder_state")
    /\ pc' = "loop"
    /\ UNCHANGED <<batch, orig, prep, prep2, final_dist, cfg, beam, output_dict>>

\* pgn.py:255-276, one iteration
LoopStep ==
    /\ pc = "loop"
    /\ loop.timestep < loop.num_decoding_steps
    /\ \E r \in FwdResponses :
          LET input_choices == InputChoices(batch, cfg, loop.timestep,
                                            loop.last_predictions)
              out == PrepareOutputProjections(input_choices, state,
                                              cfg.use_coverage, r)
              fd == FinalDistOf(out.state, out.output_projections, r)
          IN /\ state' = out.state
             /\ final_dist' = fd
             /\ IF IsError(fd)
                THEN /\ pc' = "raised"
                     /\ loop' = loop
                ELSE /\ pc' = "loop"
                     /\ loop' = LoopAfterStep(loop, fd, state, out.state,
                                              cfg.use_coverage)
    /\ calls' = Append(calls, "loop_step")
    /\ UNCHANGED <<batch, orig, prep, prep2, cfg, beam, output_dict>>

\* pgn.py:278-296 and 89-91
FinishLoop ==
    /\ pc = "loop"
    /\ loop.timestep = loop.num_decoding_steps
    /\ LET loss == LoopLoss(loop, state, cfg.use_coverage)
       IN IF Len(loop.step_predictions) = 0 \/ "error" \in DOMAIN loss.nll
          THEN /\ pc' = "raised"
               /\ output_dict' = output_dict
          ELSE /\ pc' = "after_loop"
               /\ output_dict' =
                    Put(Put(LoopOutput(LoopPredictions(loop), loss,
                                       batch.has_targets),
                            "metadata", Metadata(batch)),
                        "source_to_target",
                        [i \in DOMAIN batch.rows |->
                            batch.rows[i].source_to_target])
    /\ UNCHANGED <<batch, orig, prep, prep2, final_dist, cfg, state, loop,
                   beam, calls>>

\* pgn.py:85-91 when no targets are given
SkipLoop ==
    /\ pc = "prepared"
    /\ ~batch.has_targets
    /\ output_dict' =
          Put(Put(output_dict, "metadata", Metadata(batch)),
              "source_to_target",
              [i \in DOMAIN batch.rows |-> batch.rows[i].source_to_target])
    /\ pc' = "after_loop"
    /\ UNCHANGED <<batch, orig, prep, prep2, final_dist, cfg, state, loop,
                   beam, calls>>

\* pgn.py:93, 98 in training mode
ReturnTraining ==
    /\ pc = "after_loop"
    /\ cfg.training
    /\ pc' = "returned"
    /\ UNCHANGED <<batch, orig, prep, prep2, final_dist, cfg, state, loop,
                   beam, output_dict, calls>>

\* pgn.py:93-94 and 307-309
StartBeam ==
    /\ pc = "after_loop"
    /\ ~cfg.training
    /\ state' = InitDecoderState(state, cfg.use_coverage)
    /\ beam' = [steps |-> 0,
                last_predictions |-> [i \in DOMAIN batch.rows |-> StartIndex],
                predictions |-> [i \in DOMAIN batch.rows |-> << >>]]
    /\ calls' = Append(calls, "_init_decoder_state")
    /\ pc' = "beam"
    /\ UNCHANGED <<batch, orig, prep, prep2, final_dist, cfg, loop, output_dict>>

\* BeamSearch.search (pgn.py:68, 313-314) with beam_size 1: it calls
\* take_step (pgn.py:322-329) at most max_steps times, stops once every
\* row's last prediction is the end symbol, and keeps a finished row at the
\* end symbol.
BeamDoneOneStepLate ==
    \/ beam.steps = cfg.max_decoding_steps + 1
    \/ /\ beam.steps > 0
       /\ \A i \in DOMAIN beam.last_predictions :
             beam.last_predictions[i] = EndIndex

BeamDone ==
    \/ beam.steps = cfg.max_decoding_steps
    \/ /\ beam.steps > 0
       /\ \A i \in DOMAIN beam.last_predictions :
             beam.last_predictions[i] = EndIndex

BeamStep ==
    /\ pc = "beam"
    /\ ~BeamDone
    /\ \E r \in FwdResponses :
          LET out == PrepareOutputProjections(beam.last_predictions, state,
                                              cfg.use_coverage, r)
              fd == FinalDistOf(out.state, out.output_projections, r)
              next == [i \in DOMAIN fd |->
                         IF beam.steps > 0 /\ beam.last_predictions[i] = EndIndex
                         THEN EndIndex ELSE ArgMax(fd[i].w)]
          IN /\ state' = out.state
             /\ final_dist' = fd
             /\ IF IsError(fd)
                THEN /\ pc' = "raised"
                     /\ beam' = beam
                ELSE /\ pc' = "beam"
                     /\ beam' = [steps |-> beam.steps + 1,
                                 last_predictions |-> next,
                                 predictions |->
                                    [i \in DOMAIN fd |->
                                        Append(beam.predictions[i], next[i])]]
    /\ calls' = Append(calls, "beam_step")
    /\ UNCHANGED <<batch, orig, prep, prep2, cfg, loop, output_dict>>

\* pgn.py:316-320 and 95-98: predictions is (batch, beam_size, steps)
FinishBeam ==
    /\ pc = "beam"
    /\ BeamDone
    /\ output_dict' =
          Put(Put(output_dict, "predictions",
                  [i \in DOMAIN beam.predictions |-> <<beam.predictions[i]>>]),
              "class_log_probabilities", "class_log_probabilities")
    /\ pc' = "returned"
    /\ UNCHANGED <<batch, orig, prep, prep2, final_dist, cfg, state, loop,
                   beam, calls>>

Next ==
    \/ EncodeCall
    \/ PrepareCall
    \/ StartLoop
    \/ LoopStep
    \/ FinishLoop
    \/ SkipLoop
    \/ ReturnTraining
    \/ StartBeam
    \/ BeamStep
    \/ FinishBeam

Spec == Init /\ [][Next]_vars

(***************************************************************************)
(* decode as a function of the dictionary it is handed: predictions of     *)
(* shape (batch, steps) or (batch, beam_size, steps) over vocabulary       *)
(* indices, the end symbol and the first two extra slots.                  *)
(***************************************************************************)
PredVals == {TargetVocabSize - 1, EndIndex, TargetVocabSize, TargetVocabSize + 1}

Hypotheses == [1..MaxSteps -> PredVals]

\* The lower-ranked hypothesis of a beam of two.
OtherHypotheses ==
    {[k \in 1..MaxSteps |-> EndIndex], [k \in 1..MaxSteps |-> TargetVocabSize - 1]}

\* The dictionary decode is handed: predictions, metadata and
\* source_to_target of the rows of b; is_beam tells whether predictions
\* holds ranked hypotheses per row.
DecodeInput(b, predictions, is_beam) ==
    Put(Put(Put(Put(<< >>, "predictions", predictions), "is_beam", is_beam),
            "metadata", Metadata(b)),
        "source_to_target",
        [i \in DOMAIN b.rows |-> b.rows[i].source_to_target])

DecodeInputs ==
    {DecodeInput([rows |-> <<r>>], <<h>>, FALSE) :
        r \in EnumRows(FALSE), h \in Hypotheses}
    \cup {DecodeInput([rows |-> <<r, WideRow(FALSE)>>],
                      <<(<<h, o>>), (<<o, h>>)>>, TRUE) :
            r \in EnumRows(FALSE), h \in Hypotheses, o \in OtherHypotheses}

InitDecode ==
    /\ output_dict \in DecodeInputs
    /\ pc = "start"
    /\ batch = NoResult
    /\ orig = NoResult
    /\ prep = NoResult
    /\ prep2 = NoResult
    /\ final_dist = NoResult
    /\ cfg = NoConfig
    /\ state = << >>
    /\ loop = NoResult
    /\ beam = NoResult
    /\ calls = << >>

Decode ==
    /\ pc = "start"
    /\ LET rows == DecodeRows(output_dict)
       IN IF \E i \in DOMAIN rows : "error" \in DOMAIN rows[i]
          THEN /\ pc' = "raised"
               /\ output_dict' = output_dict
          ELSE /\ pc' = "decoded"
               /\ output_dict' =
                    Put(output_dict, "predicted_tokens",
                        [i \in DOMAIN rows |-> rows[i].tokens])
    /\ UNCHANGED <<batch, orig, prep, prep2, final_dist, cfg, state, loop,
                   beam, calls>>

NextDecode == Decode

SpecDecode == InitDecode /\ [][NextDecode]_vars

(***************************************************************************)
(* The builder followed by the output decoder: _prepare rewrites the       *)
(* batch, and decode is handed the rewritten source rows as predictions    *)
(* (every source word copied in order) with the batch's metadata and       *)
(* source_to_target, as forward passes them on (pgn.py:90-91).             *)
(***************************************************************************)
DecodeCopy ==
    /\ pc = "prepared"
    /\ LET od == DecodeInput(batch, prep.source, FALSE)
           rows == DecodeRows(od)
       IN IF \E i \in DOMAIN rows : "error" \in DOMAIN rows[i]
          THEN /\ pc' = "raised"
               /\ output_dict' = od
          ELSE /\ pc' = "decoded"
               /\ output_dict' =
                    Put(od, "predicted_tokens",
                        [i \in DOMAIN rows |-> rows[i].tokens])
    /\ UNCHANGED <<batch, orig, prep, prep2, final_dist, cfg, state, loop,
                   beam, calls>>

NextRoundTrip == Prepare \/ DecodeCopy

SpecRoundTrip == InitPrepare /\ [][NextRoundTrip]_vars

(***************************************************************************)
(* _forward_loop run twice on one batch with the same parameters: once     *)
(* with use_coverage disabled ("plain") and once enabled ("coverage").     *)
(* state, loop and output_dict hold one value per run.  A learned layer    *)
(* is a function: given the same inputs in both runs it answers the same.  *)
(***************************************************************************)
CovRuns == {"plain", "coverage"}

UsesCoverage(run) == run = "coverage"

\* The scenario's source with the target [start, zorblax, zorblax, end].
CovWords ==
    [rows |-> <<[source_to_target |-> <<4, UnkIndex, 5>>,
                 source_token_ids |-> <<0, 1, 2>>,
                 target_tokens    |-> <<StartIndex, UnkIndex, UnkIndex, EndIndex>>,
                 target_token_ids |-> <<3, 1, 1, 4>>]>>,
     has_targets |-> TRUE]

CovBatches == {FwdWords, FwdPair, CovWords}

\* The attention called with the coverage accumulator (pgn.py:192) is
\* "coverage-adjusted by penalizing positions already attended to"
\* (spec.md 4.4): where the attention without coverage answers r, it may
\* answer any distribution once some position has been attended to, and
\* answers r's while none has.
CoverageAdjusted(r, coverage) ==
    IF \A i \in DOMAIN coverage : \A p \in DOMAIN coverage[i] :
          coverage[i][p] = 0
    THEN {x \in FwdResponses : x.kind = r.kind /\ x.focus = r.focus}
    ELSE FwdResponses

\* What the layer of pgn.py:219 reads.
PGenInputs(st) ==
    <<st["attn_context"], st["decoder_hidden"], st["decoder_context"],
      st["decoder_input"]>>

\* The responses r (plain run) and rc (coverage run) are those of one set
\* of parameters.
SameParameters(r, rc, st, stc, out, outc) ==
    /\ st["decoder_hidden"] = stc["decoder_hidden"] =>
            rc \in CoverageAdjusted(r, stc["coverage"])
    /\ [i \in DOMAIN out.output_projections |->
            out.output_projections[i].read]
         = [i \in DOMAIN outc.output_projections |->
            outc.output_projections[i].read]
       => r.peak = rc.peak
    /\ PGenInputs(out.state) = PGenInputs(outc.state) => r.p_gen = rc.p_gen

InitCov ==
    /\ batch \in CovBatches
    /\ orig = batch
    /\ cfg \in {c \in Configs : c.use_coverage /\ c.max_decoding_steps = MaxSteps}
    /\ prep = PrepareResult(batch)
    /\ state = [run \in CovRuns |->
                  InitDecoderState(
                      Put(StateAfterPrepare(Encode(batch), PrepareResult(batch),
                                            batch),
                          "target_tokens", PrepareResult(batch).target),
                      UsesCoverage(run))]
    /\ loop = [plain |-> LoopStart(batch, cfg),
               coverage |-> LoopStart(batch, cfg),
               same_attention |-> TRUE]
    /\ pc = "both_loops"
    /\ prep2 = NoResult
    /\ final_dist = NoResult
    /\ beam = NoResult
    /\ output_dict = NoResult
    /\ calls = << >>

\* pgn.py:255-276, one iteration of each run
CovStep ==
    /\ pc = "both_loops"
    /\ loop.plain.timestep < loop.plain.num_decoding_steps
    /\ \E r \in FwdResponses, rc \in FwdResponses :
          LET out == PrepareOutputProjections(
                        InputChoices(batch, cfg, loop.plain.timestep,
                                     loop.plain.last_predictions),
                        state.plain, FALSE, r)
              outc == PrepareOutputProjections(
                        InputChoices(batch, cfg, loop.coverage.timestep,
                                     loop.coverage.last_predictions),
                        state.coverage, TRUE, rc)
              fd == FinalDistOf(out.state, out.output_projections, r)
              fdc == FinalDistOf(outc.state, outc.output_projections, rc)
          IN /\ SameParameters(r, rc, state.plain, state.coverage, out, outc)
             /\ state' = [plain |-> out.state, coverage |-> outc.state]
             /\ final_dist' = [plain |-> fd, coverage |-> fdc]
             /\ IF IsError(fd) \/ IsError(fdc)
                THEN /\ pc' = "raised"
                     /\ loop' = loop
                ELSE /\ pc' = "both_loops"
                     /\ loop' =
                          [plain |-> LoopAfterStep(loop.plain, fd, state.plain,
                                                   out.state, FALSE),
                           coverage |-> LoopAfterStep(loop.coverage, fdc,
                                                      state.coverage,
                                                      outc.state, TRUE),
                           same_attention |->
                               /\ loop.same_attention
                               /\ r.kind = rc.kind
                               /\ r.focus = rc.focus]
    /\ UNCHANGED <<batch, orig, prep, prep2, cfg, beam, output_dict, calls>>

\* pgn.py:278-296 in each run
CovFinish ==
    /\ pc = "both_loops"
    /\ loop.plain.timestep = loop.plain.num_decoding_steps
    /\ LET loss == [run \in CovRuns |->
                      LoopLoss(loop[run], state[run], UsesCoverage(run))]
       IN IF \E run \in CovRuns : "error" \in DOMAIN loss[run].nll
          THEN /\ pc' = "raised"
               /\ output_dict' = output_dict
          ELSE /\ pc' = "both_done"
               /\ output_dict' =
                    [run \in CovRuns |->
                        LoopOutput(LoopPredictions(loop[run]), loss[run],
                                   batch.has_targets)]
    /\ UNCHANGED <<batch, orig, prep, prep2, final_dist, cfg, state, loop,
                   beam, calls>>

NextCov == CovStep \/ CovFinish

SpecCov == InitCov /\ [][NextCov]_vars

(***************************************************************************)
(* Properties of the Extended-Vocabulary Builder and of the mixer.         *)
(***************************************************************************)
\* _prepare has returned and nothing has run since.
Prepared == pc \in {"prepared", "prepared_twice"}

Rows == DOMAIN orig.rows

\* Positions of row i: the source span, then the target span when given.
Positions(i) == DOMAIN CatTokens(orig.rows[i], orig.has_targets)

SourcePositions(i) == 1..SourceMaxLength(orig)

OrigTok(i, p) == CatTokens(orig.rows[i], orig.has_targets)[p]

OrigId(i, p) == CatTokenIds(orig.rows[i], orig.has_targets)[p]

IsOov(i, p) == OrigTok(i, p) = UnkIndex

\* The rewritten index at position p of row i, source span then target span.
Rewritten(i, p) ==
    IF p <= SourceMaxLength(orig) THEN prep.source[i][p]
    ELSE prep.target[i][p - SourceMaxLength(orig)]

\* Positions of the out-of-vocabulary word with the identity id of p.
FirstPos(i, p) ==
    MinOf({q \in Positions(i) : IsOov(i, q) /\ OrigId(i, q) = OrigId(i, p)})

\* 0-based rank of p's word among the out-of-vocabulary words of the row in
\* order of first occurrence.
FirstOccurrenceRank(i, p) ==
    Cardinality({FirstPos(i, q) : q \in {q \in Positions(i) :
                    IsOov(i, q) /\ FirstPos(i, q) < FirstPos(i, p)}})

\* 0-based rank of p's identity id among the distinct values that the row
\* holds once every in-vocabulary position counts as 0.
SortedValueRank(i, p) ==
    Cardinality({v \in {IF IsOov(i, q) THEN OrigId(i, q) ELSE 0 :
                            q \in Positions(i)} : v < OrigId(i, p)})

IsScenario == orig = ScenarioBatch

\* C2 as stated: every out-of-vocabulary source entry becomes
\* target_vocab_size - 1 + r with r the first-occurrence rank of its word,
\* and in the scenario zorblax gets target_vocab_size - 1 + 0 in its source
\* and in its target position.
C2_RankFromVocabSizeMinusOne ==
    Prepared =>
        /\ \A i \in Rows : \A p \in SourcePositions(i) :
              IsOov(i, p) =>
                Rewritten(i, p) = TargetVocabSize - 1 + FirstOccurrenceRank(i, p)
        /\ IsScenario =>
              /\ Rewritten(1, 2) = TargetVocabSize - 1 + 0
              /\ Rewritten(1, 4) = TargetVocabSize - 1 + 0

\* C2 amended: every out-of-vocabulary source entry becomes
\* target_vocab_size - 1 + r with r the rank of its identity id among the
\* ascending distinct values of the row (in-vocabulary positions count as
\* 0); in the scenario zorblax gets target_vocab_size + 0 in its source and
\* in its target position.
C2_RankAmongSortedIds ==
    Prepared =>
        /\ \A i \in Rows : \A p \in SourcePositions(i) :
              IsOov(i, p) =>
                Rewritten(i, p) = TargetVocabSize - 1 + SortedValueRank(i, p)
        /\ IsScenario =>
              /\ Rewritten(1, 2) = TargetVocabSize + 0
              /\ Rewritten(1, 4) = TargetVocabSize + 0

C2_Witness == pc = "prepared" /\ IsScenario

MaxSourceIndex(i) == MaxOf({Rewritten(i, p) : p \in SourcePositions(i)})

InSource(i, q) ==
    \E p \in SourcePositions(i) : IsOov(i, p) /\ OrigId(i, p) = OrigId(i, q)

\* C3: a target position holds an extended index only if the index does not
\* exceed the maximum index of the row's source span, and every
\* out-of-vocabulary target word absent from the source is rewritten to the
\* unknown-token id.
C3_UncopyableTargetsCollapse ==
    (Prepared /\ orig.has_targets) =>
        \A i \in Rows : \A q \in Positions(i) \ SourcePositions(i) :
            /\ Rewritten(i, q) >= TargetVocabSize =>
                  Rewritten(i, q) <= MaxSourceIndex(i)
            /\ (IsOov(i, q) /\ ~InSource(i, q)) => Rewritten(i, q) = UnkIndex

\* C4: an out-of-vocabulary word present in source and target has one
\* extended index at all its positions, and two out-of-vocabulary words
\* with different identity ids never share an extended index.
C4_OneSlotPerIdentity ==
    Prepared =>
        \A i \in Rows : \A p, q \in Positions(i) :
            (IsOov(i, p) /\ IsOov(i, q)) =>
                /\ (OrigId(i, p) = OrigId(i, q) /\ InSource(i, p)) =>
                      /\ Rewritten(i, p) = Rewritten(i, q)
                      /\ Rewritten(i, p) >= TargetVocabSize - 1
                /\ OrigId(i, p) # OrigId(i, q) =>
                      \/ Rewritten(i, p) # Rewritten(i, q)
                      \/ Rewritten(i, p) = UnkIndex

\* A row whose two source positions and a target position hold one
\* out-of-vocabulary word, next to a different one.
C4_Witness ==
    /\ pc = "prepared"
    /\ orig.has_targets
    /\ \E i \in Rows : \E q, r \in Positions(i) \ SourcePositions(i) :
          /\ \A p \in SourcePositions(i) :
                IsOov(i, p) /\ OrigId(i, p) = OrigId(i, q)
          /\ IsOov(i, q) /\ IsOov(i, r)
          /\ OrigId(i, r) # OrigId(i, q)
          /\ Rewritten(i, q) >= TargetVocabSize

C1_FinalDistIsDistribution ==
    pc = "mixed" =>
        \A i \in DOMAIN final_dist :
            /\ "w" \in DOMAIN final_dist[i]
            /\ final_dist[i].total > 0
            /\ \A j \in DOMAIN final_dist[i].w : final_dist[i].w[j] >= 0
            /\ SumSeq(final_dist[i].w) = final_dist[i].total

\* Copy mass has been added onto an extra slot and onto a vocabulary index.
C1_Witness ==
    /\ pc = "mixed"
    /\ \E i \in DOMAIN final_dist :
          /\ Len(final_dist[i].w) > TargetVocabSize
          /\ final_dist[i].w[TargetVocabSize + 1] > 0
          /\ \E j \in 1..TargetVocabSize :
                final_dist[i].w[j] * 2 > final_dist[i].total

(***************************************************************************)
(* Properties of forward.                                                  *)
(***************************************************************************)
CountCalls(name) == Cardinality({k \in DOMAIN calls : calls[k] = name})

Precedes(first, second) ==
    \A k \in DOMAIN calls :
        calls[k] = second => \E j \in 1..(k - 1) : calls[j] = first

TargetLength == Len(orig.rows[1].target_tokens)

\* The predicted sequence of row i in the returned dictionary: the loop
\* returns (batch, steps), the beam search (batch, beam_size, steps).
Returned == pc = "returned"

HasKey(k) == k \in DOMAIN output_dict

ReturnedSequence(i) ==
    IF cfg.training THEN output_dict["predictions"][i]
    ELSE output_dict["predictions"][i][1]

\* C5 as stated: neither the loop nor the beam search runs more than
\* max_decoding_steps decoder steps, and a predicted sequence without the
\* end symbol has exactly max_decoding_steps tokens.
C5_EveryLoopCapped ==
    /\ CountCalls("loop_step") <= cfg.max_decoding_steps
    /\ CountCalls("beam_step") <= cfg.max_decoding_steps
    /\ (Returned /\ HasKey("predictions")) =>
          \A i \in Rows :
              EndIndex \notin Range(ReturnedSequence(i)) =>
                  Len(ReturnedSequence(i)) = cfg.max_decoding_steps

\* C5 amended: the beam search runs at most max_decoding_steps decoder
\* steps and a beam-search sequence without the end symbol has exactly
\* max_decoding_steps tokens; the loop over given targets is not capped by
\* max_decoding_steps, it runs target length - 1 steps and returns as many
\* predictions.
C5_BeamCappedLoopFollowsTargets ==
    /\ CountCalls("beam_step") <= cfg.max_decoding_steps
    /\ CountCalls("loop_step") <= (IF orig.has_targets THEN TargetLength - 1 ELSE 0)
    /\ (Returned /\ ~cfg.training) =>
          \A i \in Rows :
              /\ Len(ReturnedSequence(i)) = CountCalls("beam_step")
              /\ EndIndex \notin Range(ReturnedSequence(i)) =>
                    Len(ReturnedSequence(i)) = cfg.max_decoding_steps
    /\ (Returned /\ cfg.training /\ orig.has_targets) =>
          \A i \in Rows :
              /\ CountCalls("loop_step") = TargetLength - 1
              /\ Len(ReturnedSequence(i)) = TargetLength - 1

\* An evaluation pass whose loop ran past max_decoding_steps and whose beam
\* search never produced the end symbol.
C5_Witness ==
    /\ Returned
    /\ ~cfg.training
    /\ CountCalls("loop_step") > cfg.max_decoding_steps
    /\ \A i \in Rows :
          /\ EndIndex \notin Range(ReturnedSequence(i))
          /\ Len(ReturnedSequence(i)) = cfg.max_decoding_steps

\* C7 as stated: whatever the mode and with or without targets, the
\* returned dictionary holds predictions, and loss when targets are given.
C7_AlwaysPredictions ==
    Returned =>
        /\ HasKey("predictions")
        /\ orig.has_targets => HasKey("loss")

\* C7 amended: the returned dictionary holds predictions in evaluation mode
\* or when targets are given, and loss exactly when targets are given; in
\* training mode without targets it holds neither.
C7_PredictionsUnlessTrainingWithoutTargets ==
    Returned =>
        /\ HasKey("predictions") <=> (~cfg.training \/ orig.has_targets)
        /\ HasKey("loss") <=> orig.has_targets
        /\ HasKey("metadata") /\ HasKey("source_to_target")

C7_Witness ==
    /\ Returned
    /\ ~cfg.training
    /\ orig.has_targets
    /\ HasKey("predictions")
    /\ HasKey("loss")

DecRows == DOMAIN output_dict["predictions"]

\* The top-ranked hypothesis of row i.
Top(i) ==
    IF output_dict["is_beam"] THEN output_dict["predictions"][i][1]
    ELSE output_dict["predictions"][i]

\* How many indices of the top hypothesis precede its first end symbol.
KeptCount(i) ==
    Cardinality({k \in DOMAIN Top(i) :
                    \A j \in 1..k : Top(i)[j] # EndIndex})

\* The literal tokens at the unknown positions of row i's source, and the
\* 0-based first-occurrence rank of one of them.
OovWords(i) ==
    {output_dict["metadata"][i].source_tokens[p] :
        p \in {p \in DOMAIN output_dict["source_to_target"][i] :
                  output_dict["source_to_target"][i][p] = UnkIndex}}

FirstSourcePos(i, w) ==
    MinOf({p \in DOMAIN output_dict["source_to_target"][i] :
              /\ output_dict["source_to_target"][i][p] = UnkIndex
              /\ output_dict["metadata"][i].source_tokens[p] = w})

WordRank(i, w) ==
    Cardinality({v \in OovWords(i) : FirstSourcePos(i, v) < FirstSourcePos(i, w)})

\* C9: decode keeps exactly the indices before the first end symbol of the
\* top-ranked hypothesis and emits one token per kept index, in order: the
\* vocabulary's token for an index below the vocabulary size, else the
\* out-of-vocabulary source word of rank index - vocabulary size.  It fails
\* only when a kept index points past the row's out-of-vocabulary words
\* (spec.md section 7).
C9_DecodeKeepsPrefixOfTop ==
    /\ pc = "decoded" =>
          \A i \in DecRows :
              LET out == output_dict["predicted_tokens"][i]
              IN /\ Len(out) = KeptCount(i)
                 /\ \A k \in 1..KeptCount(i) :
                       IF Top(i)[k] < TargetVocabSize
                       THEN out[k] = VocabToken(Top(i)[k])
                       ELSE /\ out[k] \in OovWords(i)
                            /\ WordRank(i, out[k]) = Top(i)[k] - TargetVocabSize
    /\ pc = "raised" =>
          \E i \in DecRows : \E k \in 1..KeptCount(i) :
              Top(i)[k] - TargetVocabSize >= Cardinality(OovWords(i))

\* A beam whose top hypothesis is cut at its end symbol after a copied
\* out-of-vocabulary word, and whose second hypothesis is different.
C9_Witness ==
    /\ pc = "decoded"
    /\ output_dict["is_beam"]
    /\ \E i \in DecRows :
          /\ KeptCount(i) > 0
          /\ KeptCount(i) < Len(Top(i))
          /\ Top(i)[1] >= TargetVocabSize
          /\ output_dict["predictions"][i][2] # Top(i)
          /\ Len(output_dict["predicted_tokens"][i]) = KeptCount(i)

(***************************************************************************)
(* Properties of the loss with and without coverage.                       *)
(***************************************************************************)
\* The probabilities whose logarithms the primary loss of a run averages.
PrimaryLoss(run) == output_dict[run]["loss"].nll.likelihoods

SameLikelihoods(a, b) ==
    /\ DOMAIN a = DOMAIN b
    /\ \A c \in DOMAIN a : a[c].num * b[c].den = b[c].num * a[c].den

\* The total loss of the coverage run is its own primary loss and the
\* coverage term; that of the plain run is its primary loss alone.
CoverageOnlyAdds ==
    /\ DOMAIN output_dict["plain"]["loss"] = {"nll"}
    /\ DOMAIN output_dict["coverage"]["loss"] = {"nll", "coverage"}
    /\ output_dict["coverage"]["loss"].nll
         = GetLoss(loop.coverage.step_proba, state.coverage["target_tokens"])

C11_CopiedWordsRoundTrip ==
    /\ pc # "raised"
    /\ pc = "decoded" =>
          \A i \in Rows : \A p \in SourcePositions(i) :
              IsOov(i, p) =>
                output_dict["predicted_tokens"][i][p]
                  = output_dict["metadata"][i].source_tokens[p]

(***************************************************************************)
(* Properties of the builder's index ranges.                               *)
(***************************************************************************)
\* The width of the extra-slot buffer that _prepare returned.
ExtraWidth == Len(prep.extra_zeros[1])

\* The indices of the extra slots of the final distribution.
ExtraSlots == TargetVocabSize .. (TargetVocabSize + ExtraWidth - 1)

\* C12: every rewritten source and target index lies in
\* 0 .. target_vocab_size + W - 1 with W the width of the extra-slot buffer,
\* so the scatter-add finds its position in the final distribution, and
\* the final distribution of an example has no mass on an extra slot that
\* is not an extended index of the example's own source.
C12_IndicesWithinFinalDist ==
    /\ Prepared =>
          \A i \in Rows : \A p \in Positions(i) :
              /\ Rewritten(i, p) >= 0
              /\ Rewritten(i, p) <= TargetVocabSize + ExtraWidth - 1
    /\ pc = "mixed" =>
          \A i \in Rows :
              /\ "w" \in DOMAIN final_dist[i]
              /\ Len(final_dist[i].w) = TargetVocabSize + ExtraWidth
              /\ \A j \in ExtraSlots :
                    j \notin Range(prep.source[i]) =>
                        final_dist[i].w[j + 1] = 0

\* A batch of two rows whose first row copies onto one extra slot and
\* leaves another, which only the second row's source uses, without mass.
C12_Witness ==
    /\ pc = "mixed"
    /\ Len(orig.rows) = 2
    /\ \E j, k \in ExtraSlots :
          /\ j \in Range(prep.source[1])
          /\ final_dist[1].w[j + 1] > 0
          /\ k \notin Range(prep.source[1])
          /\ k \in Range(prep.source[2])
          /\ final_dist[1].w[k + 1] = 0
          /\ final_dist[2].w[k + 1] > 0

(***************************************************************************)
(* Properties of the beam search that follows the teacher-forced loop.     *)
(***************************************************************************)
EvalWithTargets == pc # "start" /\ ~cfg.training /\ batch.has_targets

\* The decoder state that _init_decoder_state makes of the state forward
\* holds before any decoding step.
FreshState ==
    InitDecoderState(StateAfterPrepare(Encode(orig), prep, orig),
                     cfg.use_coverage)

\* What _prepare_output_projections writes.
StepKeys ==
    {"decoder_input", "decoder_hidden", "decoder_context", "attn_scores",
     "attn_context"} \cup (IF cfg.use_coverage THEN {"coverage"} ELSE {})

\* What the loop must leave as it found it.
FrameKeys == {"encoder_outputs", "source_mask", "tokens", "extra_zeros"}

\* C13: in evaluation mode with targets the beam search starts from a
\* freshly initialized decoder state (hidden from the final encoder output,
\* cell state zero, coverage zero when enabled), its first step reads
\* nothing the teacher-forced loop wrote (what the step leaves behind is
\* what the same step leaves behind on a state no loop has touched), and
\* encoder outputs, source mask, rewritten source tokens and extra-slot
\* buffer are as they were before the loop.
C13_BeamStartsFresh ==
    /\ (EvalWithTargets /\ pc = "beam" /\ beam.steps = 0) =>
          /\ state["decoder_hidden"] = FreshState["decoder_hidden"]
          /\ state["decoder_context"] = FreshState["decoder_context"]
          /\ cfg.use_coverage =>
                \A i \in DOMAIN state["coverage"] :
                    \A p \in DOMAIN state["coverage"][i] :
                        state["coverage"][i][p] = 0
    /\ (EvalWithTargets /\ pc = "beam" /\ beam.steps = 1) =>
          \E r \in FwdResponses :
              LET out == PrepareOutputProjections(
                            [i \in DOMAIN orig.rows |-> StartIndex],
                            FreshState, cfg.use_coverage, r)
              IN /\ \A k \in StepKeys : state[k] = out.state[k]
                 /\ final_dist = FinalDistOf(out.state,
                                             out.output_projections, r)
    /\ (EvalWithTargets /\ pc \in {"loop", "after_loop", "beam", "returned"}) =>
          \A k \in FrameKeys : state[k] = FreshState[k]

\* The beam search has taken its first step after a loop of two steps
\* that accumulated coverage.
C13_Witness ==
    /\ EvalWithTargets
    /\ cfg.use_coverage
    /\ pc = "beam"
    /\ beam.steps = 1
    /\ loop.timestep = 2
    /\ \E i \in DOMAIN loop.coverage_loss : loop.coverage_loss[i] > 0

====
